---- MODULE Spec2Model ----
(***************************************************************************)
(* Model of the astro_and_robots puzzle: the board state, the sliding      *)
(* movement rule (State::move_toward), the breadth-first solver            *)
(* (State::solve_from_here), the board parser (State::from_grid), the      *)
(* randomized generator (State::new_randomized), the position changes of   *)
(* a path (PosChange), Game::new and the key loop of the game (game_loop). *)
(*                                                                         *)
(* A Pos is the pair <<x, y>> with 0 <= x < cols and 0 <= y < rows.        *)
(* A State is [astro, robots, invariants |-> [goal, rows, cols]] where     *)
(* robots is a sequence (Vec<Pos>), index n of the code being n+1 here.    *)
(***************************************************************************)
EXTENDS Integers, Sequences, FiniteSets, TLC

VARIABLES
    state,      \* the State an operation is applied to; the initial state of a game
    attempt,    \* the last operation on state and its result; the last key of the game loop
    search,     \* the breadth-first search of solve_from_here
    gen,        \* the sampling loop of new_randomized
    game,       \* the result of Game::new, and the game as the keys change it
    grid,       \* the layout handed to from_grid
    parsed      \* the result of from_grid

vars == <<state, attempt, search, gen, game, grid, parsed>>

Idle == [tag |-> "Idle"]

----------------------------------------------------------------------------
(* Bounds of the model *)

\* largest number of robots on the boards movement queries are made on
MoveMaxRobots == 2

\* the board size <<rows, cols>> movement queries are made on
MoveDims == <<3, 4>>

\* the goal cells of those boards: one corner, one cell of each kind of edge
\* and one inner cell (every other cell is a reflection of one of these)
MoveGoalCells == {<<0, 0>>, <<1, 0>>, <<0, 1>>, <<1, 1>>}

\* largest number of robots on the 3 x 3 boards the solver is run on
SolveMaxRobots == 3

\* largest number of robots on the 4 x 4 boards the solver is run on
SolveMaxRobotsWide == 1

\* the goal cells of those boards: a corner, an edge cell and an inner cell
\* (every other cell is a rotation or a reflection of one of these)
SolveGoalCells == {<<0, 0>>, <<1, 0>>, <<1, 1>>}
SolveGoalCellsWide == {<<3, 0>>, <<1, 0>>, <<1, 1>>}

\* largest number of robots on the 2 x 4 boards the termination of the
\* solver is checked on, and the goal cell of those boards
FairMaxRobots == 2
FairGoalCells == {<<1, 0>>}

\* largest number of robots on the 3 x 3 boards Game::new is called on
GameMaxRobots == 2

\* largest number of robots on the 3 x 3 boards the game is played on
PlayMaxRobots == 2

\* the goal cells of those boards, an edge cell and the centre (no slide
\* ends on a corner of a 3 x 3 board), and the cells the astronaut starts on:
\* every other start is a reflection or a rotation of one of these
PlayGoalCells == {<<1, 0>>, <<1, 1>>}
PlayAstroCells == {<<0, 0>>, <<0, 1>>, <<0, 2>>, <<1, 1>>, <<1, 2>>}

\* largest length of the move history: at the bound arrow keys are not read
PlayMaxMoves == 3

\* largest number of robots of the states PosChange::try_from is applied to
DiffMaxRobots == 2

\* the cells the actors of those states stand on, and their goal cells
DiffCells == {<<0, 0>>, <<0, 2>>, <<1, 1>>, <<1, 3>>}
DiffGoalCells == {<<0, 0>>, <<1, 2>>}

\* largest number of robots on the 4 x 4 boards sequences of slides are
\* made on, and the goal cell of those boards
SlideMaxRobots == 2
SlideGoalCells == {<<1, 1>>}

\* the board sizes <<rows, cols>> new_randomized is called with
GenDims == {<<4, 4>>}

\* the shuffles new_randomized is sampled over: those that put a cell of
\* GenAstroCells first, a cell of GenGoalCells second and cells of
\* GenRobotCells next
GenAstroCells == {<<0, 1>>}
GenGoalCells == {<<1, 1>>, <<2, 1>>}
GenRobotCells == {<<3, 0>>, <<3, 1>>, <<3, 2>>, <<3, 3>>}

\* largest number of cells of the layouts handed to from_grid
GridMaxCells == 6

----------------------------------------------------------------------------
(* Primitives: state.rs *)

Direction == {"Up", "Down", "Left", "Right"}

Failure == [tag |-> "Failure"]

Success(pos) == [tag |-> "Success", pos |-> pos]

\* the set of the elements of a sequence
RECURSIVE SeqRange(_)
SeqRange(s) == IF s = <<>> THEN {} ELSE {Head(s)} \cup SeqRange(Tail(s))

\* all cells of a rows x cols board
Cells(rows, cols) == (0 .. cols - 1) \X (0 .. rows - 1)

\* sequences of exactly n pairwise distinct elements of S
RECURSIVE DistinctSeqs(_, _)
DistinctSeqs(S, n) ==
    IF n = 0 THEN {<<>>}
    ELSE UNION {{Append(q, c) : c \in S \ SeqRange(q)} : q \in DistinctSeqs(S, n - 1)}

MkState(astro, robots, goal, rows, cols) ==
    [astro |-> astro, robots |-> robots,
     invariants |-> [goal |-> goal, rows |-> rows, cols |-> cols]]

is_at_goal(s) == s.astro = s.invariants.goal

num_robots(s) == Len(s.robots)

\* tile_at giving the goal priority over the actors
tile_at_goal_first(s, pos) ==
    IF s.invariants.goal = pos THEN "Goal"
    ELSE IF s.astro = pos THEN "Astro"
    ELSE IF \E n \in 1 .. Len(s.robots) : s.robots[n] = pos THEN "Robot"
    ELSE "Empty"

tile_at(s, pos) ==
    IF s.astro = pos THEN "Astro"
    ELSE IF \E n \in 1 .. Len(s.robots) : s.robots[n] = pos THEN "Robot"
    ELSE IF s.invariants.goal = pos THEN "Goal"
    ELSE "Empty"

\* a Selection is "Astro" or the robot index n (0-based, as in the code)
Selections(s) == {[tag |-> "Astro"]} \cup {[tag |-> "Robot", n |-> n] : n \in 0 .. num_robots(s) - 1}

pos_of(s, selection) ==
    IF selection.tag = "Astro" THEN s.astro ELSE s.robots[selection.n + 1]

\* *state.pos_of_mut(selection) = new_pos
set_pos_of(s, selection, new_pos) ==
    IF selection.tag = "Astro" THEN [s EXCEPT !.astro = new_pos]
    ELSE [s EXCEPT !.robots[selection.n + 1] = new_pos]

positions_in_path(s, path_start, movement_direction) ==
    LET x == path_start[1]
        y == path_start[2]
    IN  CASE movement_direction = "Up" ->
                [i \in 1 .. y |-> <<x, y - i>>]
          [] movement_direction = "Down" ->
                [i \in 1 .. (s.invariants.rows - 1 - y) |-> <<x, y + i>>]
          [] movement_direction = "Left" ->
                [i \in 1 .. x |-> <<x - i, y>>]
          [] movement_direction = "Right" ->
                [i \in 1 .. (s.invariants.cols - 1 - x) |-> <<x + i, y>>]

\* move_loop with the board edge stopping the slide (a missing next tile
\* treated like a blocking one)
RECURSIVE move_loop_edge_stops(_, _, _)
move_loop_edge_stops(s, path, i) ==
    IF i > Len(path) THEN Failure
    ELSE LET pos == path[i]
         IN  IF tile_at(s, pos) \in {"Robot", "Astro"} THEN Failure
             ELSE IF i + 1 > Len(path) \/ tile_at(s, path[i + 1]) \in {"Robot", "Astro"}
                  THEN Success(pos)
                  ELSE move_loop_edge_stops(s, path, i + 1)

\* move_loop landing on the blocking tile instead of the tile before it
RECURSIVE move_loop_lands_on_blocker(_, _, _)
move_loop_lands_on_blocker(s, path, i) ==
    IF i > Len(path) THEN Failure
    ELSE LET pos == path[i]
         IN  IF tile_at(s, pos) \in {"Robot", "Astro"} THEN Failure
             ELSE IF i + 1 <= Len(path) /\ tile_at(s, path[i + 1]) \in {"Robot", "Astro"}
                  THEN Success(path[i + 1])
                  ELSE move_loop_lands_on_blocker(s, path, i + 1)

\* move_loop stopping at the first tile that has any next tile
RECURSIVE move_loop_single_step(_, _, _)
move_loop_single_step(s, path, i) ==
    IF i > Len(path) THEN Failure
    ELSE LET pos == path[i]
         IN  IF tile_at(s, pos) \in {"Robot", "Astro"} THEN Failure
             ELSE IF i + 1 <= Len(path)
                  THEN Success(pos)
                  ELSE move_loop_single_step(s, path, i + 1)

\* move_loop without the arm that fails on an occupied tile
RECURSIVE move_loop_no_block_arm(_, _, _)
move_loop_no_block_arm(s, path, i) ==
    IF i > Len(path) THEN Failure
    ELSE LET pos == path[i]
         IN  IF i + 1 <= Len(path) /\ tile_at(s, path[i + 1]) \in {"Robot", "Astro"}
             THEN Success(pos)
             ELSE move_loop_no_block_arm(s, path, i + 1)

\* move_loop with the Goal tile stopping the slide like an Empty tile before
\* an actor
RECURSIVE move_loop_goal_stops(_, _, _)
move_loop_goal_stops(s, path, i) ==
    IF i > Len(path) THEN Failure
    ELSE LET pos == path[i]
         IN  IF tile_at(s, pos) \in {"Robot", "Astro"} THEN Failure
             ELSE IF tile_at(s, pos) = "Goal" THEN Success(pos)
             ELSE IF i + 1 <= Len(path) /\ tile_at(s, path[i + 1]) \in {"Robot", "Astro"}
                  THEN Success(pos)
                  ELSE move_loop_goal_stops(s, path, i + 1)

\* the loop of move_toward, about to call path.next() for element i
RECURSIVE move_loop(_, _, _)
move_loop(s, path, i) ==
    IF i > Len(path) THEN Failure
    ELSE LET pos == path[i]
         IN  IF tile_at(s, pos) \in {"Robot", "Astro"} THEN Failure
             ELSE IF i + 1 <= Len(path) /\ tile_at(s, path[i + 1]) \in {"Robot", "Astro"}
                  THEN Success(pos)
                  ELSE move_loop(s, path, i + 1)

move_toward(s, current_pos, direction) ==
    move_loop(s, positions_in_path(s, current_pos, direction), 1)

----------------------------------------------------------------------------
(* Movement queries on the states of the bounded boards *)

\* states with pairwise distinct actors on a rows x cols board, the goal on
\* one of the cells goals
StatesOn(rows, cols, maxRobots, goals) ==
    {MkState(q[1], SubSeq(q, 2, Len(q)), g, rows, cols) :
        q \in UNION {DistinctSeqs(Cells(rows, cols), n + 1) : n \in 0 .. maxRobots},
        g \in goals}

MoveStates == StatesOn(MoveDims[1], MoveDims[2], MoveMaxRobots, MoveGoalCells)

InitMove ==
    /\ state \in MoveStates
    /\ attempt = Idle
    /\ search = Idle
    /\ gen = Idle
    /\ game = Idle
    /\ grid = Idle
    /\ parsed = Idle

\* state.move_toward(state.pos_of(selection), direction)
MoveToward(selection, direction) ==
    /\ attempt' = [tag |-> "Queried",
                   pos |-> pos_of(state, selection),
                   dir |-> direction,
                   result |-> move_toward(state, pos_of(state, selection), direction)]
    /\ UNCHANGED <<state, search, gen, game, grid, parsed>>

NextMove == \E selection \in Selections(state), direction \in Direction :
                MoveToward(selection, direction)

SpecMove == InitMove /\ [][NextMove]_vars

----------------------------------------------------------------------------
(* State::tile_at on every cell of the boards of the movement queries *)

\* state.tile_at(pos)
TileAt(pos) ==
    /\ attempt' = [tag |-> "Looked", pos |-> pos, result |-> tile_at(state, pos)]
    /\ UNCHANGED <<state, search, gen, game, grid, parsed>>

NextTile ==
    \E pos \in Cells(state.invariants.rows, state.invariants.cols) : TileAt(pos)

SpecTile == InitMove /\ [][NextTile]_vars

----------------------------------------------------------------------------
(* Solver: game/solver.rs *)

None == [tag |-> "None"]

Some(v) == [tag |-> "Some", v |-> v]

\* the directions in clockwise order
directions_clockwise == <<"Up", "Right", "Down", "Left">>

\* the array of directions successor_of iterates over
directions == <<"Up", "Down", "Left", "Right">>

\* the filter_map of successor_of over directions[k ..]
RECURSIVE successor_of_from(_, _, _)
successor_of_from(s, selection, k) ==
    IF k > Len(directions) THEN <<>>
    ELSE LET attempted == move_toward(s, pos_of(s, selection), directions[k])
         IN  IF attempted.tag = "Success"
             THEN <<set_pos_of(s, selection, attempted.pos)>>
                      \o successor_of_from(s, selection, k + 1)
             ELSE successor_of_from(s, selection, k + 1)

successor_of(s, selection) == successor_of_from(s, selection, 1)

\* the selections vector of all_successors: Astro, Robot(0), Robot(1), ...
selections_of(s) ==
    [j \in 1 .. num_robots(s) + 1 |->
        IF j = 1 THEN [tag |-> "Astro"] ELSE [tag |-> "Robot", n |-> j - 2]]

\* the flat_map of all_successors over selections[j ..]
RECURSIVE all_successors_from(_, _)
all_successors_from(s, j) ==
    IF j > Len(selections_of(s)) THEN <<>>
    ELSE successor_of(s, selections_of(s)[j]) \o all_successors_from(s, j + 1)

all_successors(s) == all_successors_from(s, 1)

(* State::all_successors on the boards of the movement queries *)

\* state.all_successors(), collected
AllSuccessors ==
    /\ attempt' = [tag |-> "Expanded", result |-> all_successors(state)]
    /\ UNCHANGED <<state, search, gen, game, grid, parsed>>

NextSucc == AllSuccessors

SpecSucc == InitMove /\ [][NextSucc]_vars

(* pathfinding::prelude::bfs(start, successors, success), the search that  *)
(* solve_from_here delegates to.  The search keeps an insertion-ordered map *)
(* from each seen node to the index of its parent: nodes[k] is the k-th key *)
(* and parent[k] its value (0 for the start node), and i is the index of    *)
(* the next node to expand.                                                 *)

\* the path from the start node to nodes[idx], following the parents
RECURSIVE reverse_path(_, _)
reverse_path(b, idx) ==
    IF b.parent[idx] = 0 THEN <<b.nodes[idx]>>
    ELSE Append(reverse_path(b, b.parent[idx]), b.nodes[idx])

Finished(b, result) ==
    [tag |-> "Done", nodes |-> b.nodes, parent |-> b.parent, i |-> b.i,
     result |-> result]

\* bfs_expand inserting every successor, seen before or not
RECURSIVE bfs_expand_reinserts(_, _, _)
bfs_expand_reinserts(b, succs, k) ==
    IF k > Len(succs) THEN [b EXCEPT !.i = b.i + 1]
    ELSE LET successor == succs[k]
         IN  IF is_at_goal(successor)
             THEN Finished(b, Some(Append(reverse_path(b, b.i), successor)))
             ELSE bfs_expand_reinserts([b EXCEPT !.nodes = Append(@, successor),
                                                 !.parent = Append(@, b.i)],
                                       succs, k + 1)

\* the loop over the successors succs[k ..] of node b.i
RECURSIVE bfs_expand(_, _, _)
bfs_expand(b, succs, k) ==
    IF k > Len(succs) THEN [b EXCEPT !.i = b.i + 1]
    ELSE LET successor == succs[k]
         IN  IF is_at_goal(successor)
             THEN Finished(b, Some(Append(reverse_path(b, b.i), successor)))
             ELSE IF \E n \in 1 .. Len(b.nodes) : b.nodes[n] = successor
                  THEN bfs_expand(b, succs, k + 1)
                  ELSE bfs_expand([b EXCEPT !.nodes = Append(@, successor),
                                            !.parent = Append(@, b.i)],
                                  succs, k + 1)

\* bfs_start without the test of the start node
bfs_start_unchecked(start) ==
    [tag |-> "Running", nodes |-> <<start>>, parent |-> <<0>>, i |-> 1]

\* the test of the start node and the first insertion
bfs_start(start) ==
    IF is_at_goal(start)
    THEN [tag |-> "Done", nodes |-> <<>>, parent |-> <<>>, i |-> 1,
          result |-> Some(<<start>>)]
    ELSE [tag |-> "Running", nodes |-> <<start>>, parent |-> <<0>>, i |-> 1]

\* one iteration of the while loop of the search
bfs_step(b) ==
    IF b.i <= Len(b.nodes)
    THEN bfs_expand(b, all_successors(b.nodes[b.i]), 1)
    ELSE Finished(b, None)

RECURSIVE bfs_run(_)
bfs_run(b) == IF b.tag = "Done" THEN b.result ELSE bfs_run(bfs_step(b))

solve_from_here(s) == bfs_run(bfs_start(s))

----------------------------------------------------------------------------
(* The search of solve_from_here, one expanded node per step *)

SolveStates ==
    StatesOn(3, 3, SolveMaxRobots, SolveGoalCells)
        \cup StatesOn(4, 4, SolveMaxRobotsWide, SolveGoalCellsWide)

InitSolve ==
    /\ state \in SolveStates
    /\ search = [tag |-> "Called"]
    /\ attempt = Idle
    /\ gen = Idle
    /\ game = Idle
    /\ grid = Idle
    /\ parsed = Idle

\* solve_from_here is entered: the start node is tested and inserted
BfsStart ==
    /\ search.tag = "Called"
    /\ search' = bfs_start(state)
    /\ UNCHANGED <<state, attempt, gen, game, grid, parsed>>

\* the node at index i is expanded
BfsExpand ==
    /\ search.tag = "Running"
    /\ search.i <= Len(search.nodes)
    /\ search' = bfs_step(search)
    /\ UNCHANGED <<state, attempt, gen, game, grid, parsed>>

\* no node is left to expand
BfsExhausted ==
    /\ search.tag = "Running"
    /\ search.i > Len(search.nodes)
    /\ search' = bfs_step(search)
    /\ UNCHANGED <<state, attempt, gen, game, grid, parsed>>

NextSolve == BfsStart \/ BfsExpand \/ BfsExhausted

SpecSolve == InitSolve /\ [][NextSolve]_vars

\* the boards of 2 rows and 4 columns: in a row of 4 cells an actor between
\* two others slides back and forth, so the search meets states again
FairSolveStates == StatesOn(2, 4, FairMaxRobots, FairGoalCells)

InitSolveFair ==
    /\ state \in FairSolveStates
    /\ search = [tag |-> "Called"]
    /\ attempt = Idle
    /\ gen = Idle
    /\ game = Idle
    /\ grid = Idle
    /\ parsed = Idle

\* the search is one sequential loop: it takes its next step whenever it has one
SpecSolveFair == InitSolveFair /\ [][NextSolve]_vars /\ WF_vars(NextSolve)

----------------------------------------------------------------------------
(* State::from_grid: state.rs *)

Tile == {"Empty", "Astro", "Robot", "Goal"}

Ok(v) == [tag |-> "Ok", v |-> v]

Err(msg) == [tag |-> "Err", msg |-> msg]

\* all_positions with the two ranges of the product exchanged
all_positions_transposed(rows, cols) ==
    [k \in 1 .. cols * rows |-> <<(k - 1) \div cols, (k - 1) % cols>>]

\* (0..cols).cartesian_product(0..rows).map(Pos::from), as a sequence
all_positions(rows, cols) ==
    [k \in 1 .. cols * rows |-> <<(k - 1) \div rows, (k - 1) % rows>>]

\* the end of from_grid, after the scan
from_grid_finish(g, astro, goal, robots) ==
    IF astro = None THEN Err("no player")
    ELSE IF goal = None THEN Err("no goal")
    ELSE Ok(MkState(astro.v, robots, goal.v, g.height, g.width))

\* from_grid_scan without the ensure! on a second Astro tile
RECURSIVE from_grid_scan_last_astro(_, _, _, _, _)
from_grid_scan_last_astro(g, k, astro, goal, robots) ==
    IF k > Len(all_positions(g.height, g.width))
    THEN from_grid_finish(g, astro, goal, robots)
    ELSE LET pos == all_positions(g.height, g.width)[k]
         IN  CASE g.tiles[pos] = "Empty" ->
                    from_grid_scan_last_astro(g, k + 1, astro, goal, robots)
               [] g.tiles[pos] = "Astro" ->
                    from_grid_scan_last_astro(g, k + 1, Some(pos), goal, robots)
               [] g.tiles[pos] = "Robot" ->
                    from_grid_scan_last_astro(g, k + 1, astro, goal, Append(robots, pos))
               [] g.tiles[pos] = "Goal" ->
                    IF goal # None THEN Err("more than one goal")
                    ELSE from_grid_scan_last_astro(g, k + 1, astro, Some(pos), robots)

\* the for loop of from_grid, about to visit position k of the product
RECURSIVE from_grid_scan(_, _, _, _, _)
from_grid_scan(g, k, astro, goal, robots) ==
    IF k > Len(all_positions(g.height, g.width))
    THEN from_grid_finish(g, astro, goal, robots)
    ELSE LET pos == all_positions(g.height, g.width)[k]
         IN  CASE g.tiles[pos] = "Empty" ->
                    from_grid_scan(g, k + 1, astro, goal, robots)
               [] g.tiles[pos] = "Astro" ->
                    IF astro # None THEN Err("more than one player")
                    ELSE from_grid_scan(g, k + 1, Some(pos), goal, robots)
               [] g.tiles[pos] = "Robot" ->
                    from_grid_scan(g, k + 1, astro, goal, Append(robots, pos))
               [] g.tiles[pos] = "Goal" ->
                    IF goal # None THEN Err("more than one goal")
                    ELSE from_grid_scan(g, k + 1, astro, Some(pos), robots)

\* grid.dimensions() is (width, height), bound to (cols, rows)
from_grid(g) == from_grid_scan(g, 1, None, None, <<>>)

\* the layouts of the bounded sizes
Grids ==
    UNION {[width : {d[1]}, height : {d[2]}, tiles : [Cells(d[2], d[1]) -> Tile]] :
              d \in {e \in (1 .. GridMaxCells) \X (1 .. GridMaxCells) :
                        e[1] * e[2] <= GridMaxCells}}

InitGrid ==
    /\ grid \in Grids
    /\ parsed = Idle
    /\ state = Idle
    /\ attempt = Idle
    /\ search = Idle
    /\ gen = Idle
    /\ game = Idle

FromGrid ==
    /\ parsed = Idle
    /\ parsed' = from_grid(grid)
    /\ UNCHANGED <<state, attempt, search, gen, game, grid>>

NextGrid == FromGrid

SpecGrid == InitGrid /\ [][NextGrid]_vars

----------------------------------------------------------------------------
(* State::new_randomized: state.rs *)
(* rng.shuffle permutes all_positions in place on every draw; every        *)
(* permutation can follow every other, so the order left by the previous   *)
(* draw is not part of the state.                                          *)

candidate_validate_attempts == 5000

is_non_trivial_longer(solution) == Len(solution) > 5

is_non_trivial(solution) == Len(solution) >= 5

\* solution.swap_remove(0) returning the element swapped in, not the removed
swap_remove_first_swapped(solution) == solution[Len(solution)]

\* the value returned by solution.swap_remove(0)
swap_remove_first(solution) == solution[1]

take_has_next_inclusive(taken) == taken <= candidate_validate_attempts

\* .take(candidate_validate_attempts): whether another candidate is drawn
take_has_next(taken) == taken < candidate_validate_attempts

\* the state built by the repeat_with closure from the shuffled positions
candidate_of(shuffled, n_robots, rows, cols) ==
    MkState(shuffled[1], SubSeq(shuffled, 3, 2 + n_robots), shuffled[2], rows, cols)

\* the leading 2 + n_robots cells of the shuffles sampled over
ShuffledPrefixes(rows, cols, n_robots) ==
    {<<a, g>> \o q :
        a \in GenAstroCells, g \in GenGoalCells,
        q \in DistinctSeqs(GenRobotCells \cap Cells(rows, cols), n_robots)}

Max(a, b) == IF a >= b THEN a ELSE b

\* every candidate the closure can build under the sampled shuffles
GenCandidates ==
    UNION {UNION {{candidate_of(p, n, d[1], d[2]) : p \in ShuffledPrefixes(d[1], d[2], n)} :
                     n \in 0 .. Max(d[1], d[2]) - 1} :
              d \in GenDims}

\* solve_from_here of every candidate, computed once
Solutions == [c \in GenCandidates |-> solve_from_here(c)]

solution_of(c) == IF c \in DOMAIN Solutions THEN Solutions[c] ELSE solve_from_here(c)

----------------------------------------------------------------------------
(* One call of the closure of repeat_with in new_randomized, for every     *)
(* board size the command line accepts.  The closure keeps nothing between *)
(* calls but the order of all_positions, and rng.shuffle can leave any     *)
(* order whatever the order before, so every call is like the first.       *)

\* the range of dimension_in_range
acceptable == 4 .. 10

\* the outcomes of rng.shuffle sampled over: the rotations of a sequence and
\* of its reverse
Shuffles(positions) ==
    LET N == Len(positions)
    IN  {[k \in 1 .. N |-> positions[((k - 1 + r) % N) + 1]] : r \in 0 .. N - 1}
            \cup {[k \in 1 .. N |-> positions[((N - k + r) % N) + 1]] : r \in 0 .. N - 1}

InitCandidate ==
    /\ \E rows \in acceptable, cols \in acceptable :
          gen = [tag |-> "Drawing", rows |-> rows, cols |-> cols]
    /\ state = Idle
    /\ attempt = Idle
    /\ search = Idle
    /\ game = Idle
    /\ grid = Idle
    /\ parsed = Idle

\* one call of the closure: num_robots is drawn, the assertion is tested,
\* the positions are shuffled and the State is built
DrawCandidate(n_robots, shuffled) ==
    /\ gen.tag = "Drawing"
    /\ IF ~(n_robots + 2 < Len(all_positions(gen.rows, gen.cols)))
       THEN gen' = [tag |-> "Panicked", rows |-> gen.rows, cols |-> gen.cols]
       ELSE gen' = [tag |-> "Built", rows |-> gen.rows, cols |-> gen.cols,
                    num_robots |-> n_robots,
                    candidate |-> candidate_of(shuffled, n_robots, gen.rows, gen.cols)]
    /\ UNCHANGED <<state, attempt, search, game, grid, parsed>>

NextCandidate ==
    /\ gen.tag = "Drawing"
    /\ \E n_robots \in 0 .. Max(gen.rows, gen.cols) - 1 :
          \E shuffled \in Shuffles(all_positions(gen.rows, gen.cols)) :
              DrawCandidate(n_robots, shuffled)

SpecCandidate == InitCandidate /\ [][NextCandidate]_vars

----------------------------------------------------------------------------
(* Vocabulary of the solver properties: the slide graph as sets *)

\* t is s after one successful slide of one actor
IsSlide(s, t) ==
    \E selection \in Selections(s), direction \in Direction :
        LET attempted == move_toward(s, pos_of(s, selection), direction)
        IN  /\ attempted.tag = "Success"
            /\ t = set_pos_of(s, selection, attempted.pos)

Slides(s) ==
    {set_pos_of(s, m[1], move_toward(s, pos_of(s, m[1]), m[2]).pos) :
        m \in {n \in Selections(s) \X Direction :
                  move_toward(s, pos_of(s, n[1]), n[2]).tag = "Success"}}

\* the number of actors whose position differs between s and t
ActorsMoved(s, t) ==
    Cardinality({selection \in Selections(s) : pos_of(s, selection) # pos_of(t, selection)})

\* the least number of slides from a state of frontier to a goal state, where
\* frontier is at distance d and seen holds all states at distance <= d;
\* -1 when no goal state can be reached
RECURSIVE GoalDistanceFrom(_, _, _)
GoalDistanceFrom(frontier, seen, d) ==
    IF \E t \in frontier : is_at_goal(t) THEN d
    ELSE IF frontier = {} THEN -1
    ELSE LET next == UNION {Slides(t) : t \in frontier} \ seen
         IN  GoalDistanceFrom(next, seen \cup next, d + 1)

GoalDistance(s) == GoalDistanceFrom({s}, {s}, 0)

\* the least number of slides to a goal state, for every candidate
GoalDistances == [c \in GenCandidates |-> GoalDistance(c)]

goal_distance_of(c) == IF c \in DOMAIN GoalDistances THEN GoalDistances[c] ELSE GoalDistance(c)

\* solvable, and not in fewer than 4 slides: a shortest solution has >= 5 states
Acceptable(c) == goal_distance_of(c) >= 4

InitGen ==
    /\ \E d \in GenDims :
          gen = [tag |-> "Sampling", rows |-> d[1], cols |-> d[2], taken |-> 0,
                 passed_over |-> FALSE]
    /\ state = Idle
    /\ attempt = Idle
    /\ search = Idle
    /\ game = Idle
    /\ grid = Idle
    /\ parsed = Idle

\* one candidate goes through the pipeline: the closure draws n_robots and a
\* shuffle and builds the state, filter_map solves it, find_map accepts it
\* when its solution is non-trivial.  passed_over is a history variable: it
\* records that a candidate solvable in no fewer than 4 slides was dropped.
GenAttempt(n_robots, shuffled) ==
    /\ gen.tag = "Sampling"
    /\ take_has_next(gen.taken)
    /\ LET candidate == candidate_of(shuffled, n_robots, gen.rows, gen.cols)
           solution == solution_of(candidate)
       IN  IF ~(n_robots + 2 < Len(all_positions(gen.rows, gen.cols)))
           THEN gen' = [gen EXCEPT !.tag = "Panicked"]
           ELSE IF solution.tag = "Some" /\ is_non_trivial(solution.v)
           THEN gen' = [tag |-> "Returned", rows |-> gen.rows, cols |-> gen.cols,
                        taken |-> gen.taken + 1, passed_over |-> gen.passed_over,
                        candidate |-> candidate,
                        result |-> Ok(swap_remove_first(solution.v))]
           ELSE gen' = [gen EXCEPT !.taken = @ + 1,
                                   !.passed_over = @ \/ Acceptable(candidate)]
    /\ UNCHANGED <<state, attempt, search, game, grid, parsed>>

\* take() is exhausted: find_map yields None and ok_or_else the error
GenExhausted ==
    /\ gen.tag = "Sampling"
    /\ ~take_has_next(gen.taken)
    /\ gen' = [tag |-> "Returned", rows |-> gen.rows, cols |-> gen.cols,
               taken |-> gen.taken, passed_over |-> gen.passed_over,
               candidate |-> None,
               result |-> Err("all generated positions failed validation")]
    /\ UNCHANGED <<state, attempt, search, game, grid, parsed>>

NextGen ==
    \/ \E n_robots \in 0 .. Max(gen.rows, gen.cols) - 1 :
          \E shuffled \in ShuffledPrefixes(gen.rows, gen.cols, n_robots) :
              GenAttempt(n_robots, shuffled)
    \/ GenExhausted

SpecGen == InitGen /\ [][NextGen]_vars

----------------------------------------------------------------------------
(* Game::new: game/mod.rs *)

SolutionWalkthrough_new(solution) == [solution |-> solution, current_step |-> 0]

\* Game::new presenting an unsolvable state with an empty walkthrough
Game_new_unchecked(initial_state) ==
    LET solution == solve_from_here(initial_state)
    IN  Ok([moves |-> <<initial_state>>,
            selected |-> [tag |-> "Astro"],
            mode |-> "Playable",
            walkthrough |-> SolutionWalkthrough_new(
                IF solution = None THEN <<>> ELSE solution.v)])

Game_new(initial_state) ==
    LET solution == solve_from_here(initial_state)
    IN  IF solution = None THEN Err("game cannot be solved from this state")
        ELSE Ok([moves |-> <<initial_state>>,
                 selected |-> [tag |-> "Astro"],
                 mode |-> "Playable",
                 walkthrough |-> SolutionWalkthrough_new(solution.v)])

\* the states from_grid can build on a 3 x 3 board: the goal on a free cell
GameStates ==
    {s \in StatesOn(3, 3, GameMaxRobots, Cells(3, 3)) : tile_at(s, s.invariants.goal) = "Goal"}

InitGame ==
    /\ state \in GameStates
    /\ game = Idle
    /\ attempt = Idle
    /\ search = Idle
    /\ gen = Idle
    /\ grid = Idle
    /\ parsed = Idle

GameNew ==
    /\ game = Idle
    /\ game' = Game_new(state)
    /\ UNCHANGED <<state, attempt, search, gen, grid, parsed>>

NextGame == GameNew

SpecGame == InitGame /\ [][NextGame]_vars

----------------------------------------------------------------------------
(* PosChange and State::pos_changes: state.rs *)

PosChange(before, after) == <<before, after>>

\* res.wrap_err(context): an Ok passes through, an Err gains the context
wrap_err(res, context) ==
    IF res.tag = "Ok" THEN res ELSE Err(<<context, res.msg>>)

\* the find_map over zip(s.robots, t.robots), from index k on
RECURSIVE find_robot_change(_, _, _)
find_robot_change(s, t, k) ==
    IF k > Len(s.robots) \/ k > Len(t.robots) THEN None
    ELSE IF s.robots[k] # t.robots[k] THEN Some(PosChange(s.robots[k], t.robots[k]))
    ELSE find_robot_change(s, t, k + 1)

\* try_from without the comparison of the astronaut positions
PosChange_try_from_robots_only(s, t) ==
    IF s.invariants # t.invariants THEN Err("state invariants differ")
    ELSE IF num_robots(s) # num_robots(t) THEN Err("number of robots differs")
    ELSE LET found == find_robot_change(s, t, 1)
         IN  IF found = None THEN Err("start and end states are equal")
             ELSE Ok(found.v)

\* try_from reporting the last differing robot instead of the first
PosChange_try_from_last_robot(s, t) ==
    IF s.invariants # t.invariants THEN Err("state invariants differ")
    ELSE IF num_robots(s) # num_robots(t) THEN Err("number of robots differs")
    ELSE IF s.astro # t.astro THEN Ok(PosChange(s.astro, t.astro))
    ELSE LET differing == {k \in 1 .. Len(s.robots) : s.robots[k] # t.robots[k]}
         IN  IF differing = {} THEN Err("start and end states are equal")
             ELSE LET k == CHOOSE n \in differing : \A m \in differing : m <= n
                  IN  Ok(PosChange(s.robots[k], t.robots[k]))

\* <PosChange as TryFrom<(&State, &State)>>::try_from
PosChange_try_from(s, t) ==
    IF s.invariants # t.invariants THEN Err("state invariants differ")
    ELSE IF num_robots(s) # num_robots(t) THEN Err("number of robots differs")
    ELSE IF s.astro # t.astro THEN Ok(PosChange(s.astro, t.astro))
    ELSE LET found == find_robot_change(s, t, 1)
         IN  IF found = None THEN Err("start and end states are equal")
             ELSE Ok(found.v)

\* State::pos_changes(states), collected: one result per window of 2
pos_changes(states) ==
    [k \in 1 .. (IF Len(states) >= 2 THEN Len(states) - 1 ELSE 0) |->
        wrap_err(PosChange_try_from(states[k], states[k + 1]),
                 "paths have different invariants")]


----------------------------------------------------------------------------
(* Game and SolutionWalkthrough: game/mod.rs *)
(* A game g is the record [moves, selected, mode, walkthrough].            *)

\* Game::state: the last entry of moves
Game_state(g) == g.moves[Len(g.moves)]

\* select_next_character without the arm that wraps to Astro
select_next_character_no_wrap(g) ==
    LET n_robots == num_robots(Game_state(g))
        next == IF g.selected.tag = "Astro"
                THEN IF n_robots = 0 THEN [tag |-> "Astro"]
                     ELSE [tag |-> "Robot", n |-> 0]
                ELSE [tag |-> "Robot", n |-> g.selected.n + 1]
    IN  [g EXCEPT !.selected = next]

select_next_character(g) ==
    LET n_robots == num_robots(Game_state(g))
        next == IF g.selected.tag = "Astro"
                THEN IF n_robots = 0 THEN [tag |-> "Astro"]
                     ELSE [tag |-> "Robot", n |-> 0]
                ELSE IF g.selected.n + 1 = n_robots THEN [tag |-> "Astro"]
                     ELSE [tag |-> "Robot", n |-> g.selected.n + 1]
    IN  [g EXCEPT !.selected = next]

select_prev_character(g) ==
    LET n_robots == num_robots(Game_state(g))
        prev == IF g.selected.tag = "Astro"
                THEN IF n_robots = 0 THEN [tag |-> "Astro"]
                     ELSE [tag |-> "Robot", n |-> n_robots - 1]
                ELSE IF g.selected.n = 0 THEN [tag |-> "Astro"]
                     ELSE [tag |-> "Robot", n |-> g.selected.n - 1]
    IN  [g EXCEPT !.selected = prev]

\* toggle_mode taking GameOver back to Playable
toggle_mode_from_game_over(g) ==
    [g EXCEPT !.mode = CASE g.mode = "Playable" -> "Walkthrough"
                         [] g.mode = "Walkthrough" -> "Playable"
                         [] g.mode = "GameOver" -> "Playable"]

toggle_mode(g) ==
    [g EXCEPT !.mode = CASE g.mode = "Playable" -> "Walkthrough"
                         [] g.mode = "Walkthrough" -> "Playable"
                         [] g.mode = "GameOver" -> "GameOver"]

selected_pos(g) == pos_of(Game_state(g), g.selected)

\* Game::move_toward: the MovementAttempt inside Action::Movement
Game_move_toward(g, direction) == move_toward(Game_state(g), selected_pos(g), direction)

\* move_selection_to overwriting the last entry instead of pushing a clone
move_selection_to_in_place(g, new_pos) ==
    LET new_state == set_pos_of(Game_state(g), g.selected, new_pos)
        moved == [g EXCEPT !.moves[Len(g.moves)] = new_state]
    IN  IF is_at_goal(Game_state(moved)) THEN [moved EXCEPT !.mode = "GameOver"]
        ELSE moved

move_selection_to(g, new_pos) ==
    LET new_state == set_pos_of(Game_state(g), g.selected, new_pos)
        moved == [g EXCEPT !.moves = Append(@, new_state)]
    IN  IF is_at_goal(Game_state(moved)) THEN [moved EXCEPT !.mode = "GameOver"]
        ELSE moved

\* moves.truncate(1)
truncate_one(moves) == IF Len(moves) > 1 THEN SubSeq(moves, 1, 1) ELSE moves

restart(g) ==
    [g EXCEPT !.moves = truncate_one(@),
              !.walkthrough.current_step = 0,
              !.mode = "Playable"]

undo(g) ==
    IF Len(g.moves) > 1
    THEN [g EXCEPT !.moves = SubSeq(@, 1, Len(@) - 1)]
    ELSE g

SolutionWalkthrough_len(w) == Len(w.solution)

\* SolutionWalkthrough::state: solution.get(current_step), None when the
\* cursor is past the end (the expect then panics)
SolutionWalkthrough_state(w) ==
    IF w.current_step < Len(w.solution) THEN Some(w.solution[w.current_step + 1])
    ELSE None

decrement(w) ==
    IF w.current_step > 0 THEN [w EXCEPT !.current_step = @ - 1] ELSE w

\* increment comparing the cursor with len() instead of len() - 1
increment_to_len(w) ==
    IF w.current_step < SolutionWalkthrough_len(w)
    THEN [w EXCEPT !.current_step = @ + 1]
    ELSE w

\* len() is at least 1 for every walkthrough Game::new builds, so the usize
\* subtraction len() - 1 does not wrap
increment(w) ==
    IF w.current_step < SolutionWalkthrough_len(w) - 1
    THEN [w EXCEPT !.current_step = @ + 1]
    ELSE w

walkthrough_prev(g) == [g EXCEPT !.walkthrough = decrement(@)]

walkthrough_next(g) == [g EXCEPT !.walkthrough = increment(@)]

----------------------------------------------------------------------------
(* game_loop: main.rs.  One step per key read from stdin; attempt records  *)
(* the key and the game as it was when the key was read.                   *)

\* the initial states the game is played from: the goal on a free cell
PlayStates ==
    {s \in StatesOn(3, 3, PlayMaxRobots, PlayGoalCells) :
        s.astro \in PlayAstroCells /\ tile_at(s, s.invariants.goal) = "Goal"}

InitPlay ==
    /\ state \in PlayStates
    /\ Game_new(state).tag = "Ok"
    /\ game = Game_new(state)
    /\ attempt = [tag |-> "Started"]
    /\ search = Idle
    /\ gen = Idle
    /\ grid = Idle
    /\ parsed = Idle

Running == game.tag = "Ok" /\ attempt.tag # "Exited"

\* the game after the key, and the record of the key
Dispatched(key, after) ==
    /\ attempt' = [tag |-> "Key", key |-> key, before |-> game.v]
    /\ game' = [game EXCEPT !.v = after]
    /\ UNCHANGED <<state, search, gen, grid, parsed>>

\* an arrow key: a movement of the selection in Playable mode, ignored in
\* the other modes and when the movement fails
KeyArrow(direction) ==
    /\ Running
    /\ Len(game.v.moves) < PlayMaxMoves
    /\ Dispatched(direction,
          IF game.v.mode = "Playable"
          THEN LET attempted == Game_move_toward(game.v, direction)
               IN  IF attempted.tag = "Success"
                   THEN move_selection_to(game.v, attempted.pos)
                   ELSE game.v
          ELSE game.v)

KeyZ ==
    /\ Running
    /\ Dispatched("z",
          CASE game.v.mode = "Playable" -> select_prev_character(game.v)
            [] game.v.mode = "Walkthrough" -> walkthrough_prev(game.v)
            [] OTHER -> game.v)

KeyX ==
    /\ Running
    /\ Dispatched("x",
          CASE game.v.mode = "Playable" -> select_next_character(game.v)
            [] game.v.mode = "Walkthrough" -> walkthrough_next(game.v)
            [] OTHER -> game.v)

KeyU ==
    /\ Running
    /\ Dispatched("u", IF game.v.mode = "Playable" THEN undo(game.v) ELSE game.v)

KeyR ==
    /\ Running
    /\ Dispatched("r", restart(game.v))

KeyW ==
    /\ Running
    /\ Dispatched("w", toggle_mode(game.v))

\* Esc or Ctrl-c: the loop is left
KeyEsc ==
    /\ Running
    /\ attempt' = [tag |-> "Exited"]
    /\ UNCHANGED <<state, search, gen, game, grid, parsed>>

NextPlay ==
    \/ \E direction \in Direction : KeyArrow(direction)
    \/ KeyZ
    \/ KeyX
    \/ KeyU
    \/ KeyR
    \/ KeyW
    \/ KeyEsc

SpecPlay == InitPlay /\ [][NextPlay]_vars


----------------------------------------------------------------------------
(* PosChange::try_from on pairs of states: state is s, the action draws t  *)

\* the states with the actors on cells of the given set
StatesAmong(cells, rows, cols, maxRobots, goals) ==
    {MkState(q[1], SubSeq(q, 2, Len(q)), g, rows, cols) :
        q \in UNION {DistinctSeqs(cells, n + 1) : n \in 0 .. maxRobots},
        g \in goals}

\* boards of 4 rows and 2 columns, and boards of other sizes with the
\* astronaut alone
DiffStates ==
    StatesAmong(DiffCells, 4, 2, DiffMaxRobots, DiffGoalCells)
        \cup StatesAmong(DiffCells, 4, 3, 0, DiffGoalCells)
        \cup StatesAmong(DiffCells, 5, 2, 0, DiffGoalCells)

InitDiff ==
    /\ state \in DiffStates
    /\ attempt = Idle
    /\ search = Idle
    /\ gen = Idle
    /\ game = Idle
    /\ grid = Idle
    /\ parsed = Idle

\* PosChange::try_from((&state, &t))
TryFrom(t) ==
    /\ attempt' = [tag |-> "Compared", t |-> t, result |-> PosChange_try_from(state, t)]
    /\ UNCHANGED <<state, search, gen, game, grid, parsed>>

NextDiff == \E t \in DiffStates : TryFrom(t)

SpecDiff == InitDiff /\ [][NextDiff]_vars


----------------------------------------------------------------------------
(* Sequences of successful slides: the transition successor_of makes for   *)
(* one direction and Game::move_selection_to commits.  state is the current *)
(* state; attempt keeps the state the sequence started from and the last    *)
(* slide.                                                                   *)

\* the 4 x 4 boards: an actor between two others in a row or a column of 4
\* cells slides back and forth, so the sequences of slides are unbounded
InitSlide ==
    /\ state \in StatesOn(4, 4, SlideMaxRobots, SlideGoalCells)
    /\ attempt = [tag |-> "Start", start |-> state]
    /\ search = Idle
    /\ gen = Idle
    /\ game = Idle
    /\ grid = Idle
    /\ parsed = Idle

\* the closure of successor_of for one direction: a clone of the state with
\* the position of the selection replaced, when move_toward succeeds
Slide(selection, direction) ==
    LET attempted == move_toward(state, pos_of(state, selection), direction)
    IN  /\ attempted.tag = "Success"
        /\ state' = set_pos_of(state, selection, attempted.pos)
        /\ attempt' = [tag |-> "Slid", start |-> attempt.start,
                       selection |-> selection, dir |-> direction]
        /\ UNCHANGED <<search, gen, game, grid, parsed>>

NextSlide ==
    \E selection \in Selections(state), direction \in Direction :
        Slide(selection, direction)

SpecSlide == InitSlide /\ [][NextSlide]_vars


----------------------------------------------------------------------------
(* Vocabulary of the movement properties, independent of the scan *)

Delta(direction) ==
    CASE direction = "Up" -> <<0, -1>>
      [] direction = "Down" -> <<0, 1>>
      [] direction = "Left" -> <<-1, 0>>
      [] direction = "Right" -> <<1, 0>>

\* the cell k steps from pos in direction (possibly off the board)
Ahead(pos, direction, k) ==
    <<pos[1] + k * Delta(direction)[1], pos[2] + k * Delta(direction)[2]>>

OnBoard(s, p) ==
    /\ 0 <= p[1] /\ p[1] < s.invariants.cols
    /\ 0 <= p[2] /\ p[2] < s.invariants.rows

HoldsActor(s, p) == p = s.astro \/ p \in SeqRange(s.robots)

\* number of on-board cells from pos (exclusive) to the edge in direction
Room(s, pos, direction) ==
    Cardinality({k \in 1 .. (s.invariants.rows + s.invariants.cols) :
                    OnBoard(s, Ahead(pos, direction, k))})

\* distances k at which an actor stands on the path
BlockersAt(s, pos, direction) ==
    {k \in 1 .. Room(s, pos, direction) : HoldsActor(s, Ahead(pos, direction, k))}

Min(S) == CHOOSE m \in S : \A n \in S : m <= n

Queried == attempt.tag = "Queried"

----------------------------------------------------------------------------
(* C1 *)

----------------------------------------------------------------------------
(* C5 *)

\* C5: a Success(P) lies k >= 1 steps from pos in direction D on the board,
\* every cell strictly between pos and P and P itself holds no actor, and the
\* cell immediately beyond P is off the board or holds an actor.
C5_SuccessShape ==
    (Queried /\ attempt.result.tag = "Success") =>
        \E k \in 1 .. Room(state, attempt.pos, attempt.dir) :
            /\ attempt.result.pos = Ahead(attempt.pos, attempt.dir, k)
            /\ \A j \in 1 .. k : ~HoldsActor(state, Ahead(attempt.pos, attempt.dir, j))
            /\ \/ ~OnBoard(state, Ahead(attempt.pos, attempt.dir, k + 1))
               \/ HoldsActor(state, Ahead(attempt.pos, attempt.dir, k + 1))

C5_Witness ==
    /\ Queried
    /\ attempt.result = Success(Ahead(attempt.pos, attempt.dir, 2))
    /\ HoldsActor(state, Ahead(attempt.pos, attempt.dir, 3))

----------------------------------------------------------------------------
(* C6 *)

\* C6: when the cell adjacent to pos in D is free and some actor stands
\* further along the path, the result is Success of the cell immediately
\* before the nearest such actor.
C6_StopsBeforeNearestActor ==
    (Queried /\ Room(state, attempt.pos, attempt.dir) >= 1
             /\ ~HoldsActor(state, Ahead(attempt.pos, attempt.dir, 1))
             /\ BlockersAt(state, attempt.pos, attempt.dir) # {})
        => attempt.result =
             Success(Ahead(attempt.pos, attempt.dir,
                           Min(BlockersAt(state, attempt.pos, attempt.dir)) - 1))

C6_Witness ==
    /\ Queried
    /\ Cardinality(BlockersAt(state, attempt.pos, attempt.dir)) = 1
    /\ Min(BlockersAt(state, attempt.pos, attempt.dir)) = 3
    /\ tile_at(state, Ahead(attempt.pos, attempt.dir, 1)) = "Goal"
    /\ attempt.result = Success(Ahead(attempt.pos, attempt.dir, 2))

----------------------------------------------------------------------------
(* C7 *)

\* C7: move_toward yields Failure when pos is on the board boundary in D
\* (empty path) and when the cell adjacent to pos in D holds an actor.
C7_CannotMoveFails ==
    (Queried /\ \/ Room(state, attempt.pos, attempt.dir) = 0
                \/ HoldsActor(state, Ahead(attempt.pos, attempt.dir, 1)))
        => attempt.result = Failure

C7_Witness ==
    /\ Queried
    /\ HoldsActor(state, Ahead(attempt.pos, attempt.dir, 1))
    /\ HoldsActor(state, Ahead(attempt.pos, attempt.dir, 2))
    /\ attempt.result = Failure

----------------------------------------------------------------------------
(* Vocabulary of the solver properties *)

Solved == search.tag = "Done"

----------------------------------------------------------------------------
(* C2 *)

\* C2: solve_from_here(S) is Some(path) exactly when a goal state can be
\* reached from S by successful single-actor slides; the path then starts
\* with S, ends at a goal state, each consecutive pair is one successful
\* slide of exactly one actor, and no shorter sequence reaches a goal state.
C2_ShortestSolution ==
    Solved =>
        /\ (search.result.tag = "Some") <=> (GoalDistance(state) # -1)
        /\ search.result.tag = "Some" =>
              LET path == search.result.v
              IN  /\ Len(path) >= 1
                  /\ path[1] = state
                  /\ is_at_goal(path[Len(path)])
                  /\ \A k \in 1 .. Len(path) - 1 :
                        /\ IsSlide(path[k], path[k + 1])
                        /\ ActorsMoved(path[k], path[k + 1]) = 1
                  /\ Len(path) - 1 = GoalDistance(state)

C2_Witness ==
    /\ Solved
    /\ search.result.tag = "Some"
    /\ Len(search.result.v) = 4
    /\ \E k \in 1 .. 3 : search.result.v[k].astro = search.result.v[k + 1].astro
    /\ search.i >= 3

----------------------------------------------------------------------------
(* C3 *)

\* the 4 x 4 board with the astronaut at (0,0), the goal at (3,0), no robots
C3_Board == MkState(<<0, 0>>, <<>>, <<3, 0>>, 4, 4)

----------------------------------------------------------------------------
(* C9 *)

TilesOf(g, tile) == {pos \in DOMAIN g.tiles : g.tiles[pos] = tile}

\* C9: from_grid fails for every layout whose number of Astro tiles or of
\* Goal tiles is not exactly one; otherwise it is Ok with astro and goal at
\* those tiles, robots holding exactly the Robot cells (each once), and
\* rows/cols equal to the height/width of the grid.
C9_FromGridValidates ==
    parsed # Idle =>
        IF Cardinality(TilesOf(grid, "Astro")) = 1 /\ Cardinality(TilesOf(grid, "Goal")) = 1
        THEN /\ parsed.tag = "Ok"
             /\ TilesOf(grid, "Astro") = {parsed.v.astro}
             /\ TilesOf(grid, "Goal") = {parsed.v.invariants.goal}
             /\ SeqRange(parsed.v.robots) = TilesOf(grid, "Robot")
             /\ Len(parsed.v.robots) = Cardinality(TilesOf(grid, "Robot"))
             /\ parsed.v.invariants.rows = grid.height
             /\ parsed.v.invariants.cols = grid.width
        ELSE parsed.tag = "Err"

C9_Witness ==
    /\ parsed # Idle
    /\ parsed.tag = "Ok"
    /\ Len(parsed.v.robots) = 2
    /\ grid.width = 2
    /\ grid.height = 3

\* a rejected layout with two Astro tiles, and one with no Goal tile
C9_WitnessRejected ==
    /\ parsed # Idle
    /\ parsed = Err("more than one player")
    /\ Cardinality(TilesOf(grid, "Goal")) = 1

----------------------------------------------------------------------------
(* C4 *)

ReturnedOk == gen.tag = "Returned" /\ gen.result.tag = "Ok"

\* C4: every state new_randomized returns as Ok is the candidate as it was
\* sampled (not a later state of its solution), is solvable, and its solution
\* has at least 5 states, i.e. no goal state is nearer than 4 slides.
C4_ReturnsSolvableCandidate ==
    ReturnedOk =>
        /\ gen.result.v = gen.candidate
        /\ ~is_at_goal(gen.result.v)
        /\ goal_distance_of(gen.result.v) >= 4
        /\ solution_of(gen.result.v).tag = "Some"
        /\ Len(solution_of(gen.result.v).v) >= 5

C4_Witness ==
    /\ ReturnedOk
    /\ gen.taken > 1
    /\ num_robots(gen.result.v) = 3
    /\ goal_distance_of(gen.result.v) = 4

----------------------------------------------------------------------------
(* C8 *)

\* C8: Game::new is an error whenever no goal state can be reached from the
\* initial state, and is Ok exactly when one can; the game then has
\* moves = [initial_state], selection Astro, mode Playable and a walkthrough
\* holding the solver's path (from the initial state to a goal state, of
\* least length) with cursor 0.
C8_NewRejectsUnsolvable ==
    game # Idle =>
        IF GoalDistance(state) = -1
        THEN game.tag = "Err"
        ELSE /\ game.tag = "Ok"
             /\ game.v.moves = <<state>>
             /\ game.v.selected = [tag |-> "Astro"]
             /\ game.v.mode = "Playable"
             /\ game.v.walkthrough.current_step = 0
             /\ Some(game.v.walkthrough.solution) = solve_from_here(state)
             /\ game.v.walkthrough.solution[1] = state
             /\ Len(game.v.walkthrough.solution) = GoalDistance(state) + 1
             /\ is_at_goal(game.v.walkthrough.solution[Len(game.v.walkthrough.solution)])

C8_Witness ==
    /\ game # Idle
    /\ game.tag = "Ok"
    /\ Len(game.v.walkthrough.solution) = 3
    /\ num_robots(state) = 2

\* an unsolvable state with robots on the board, rejected
C8_WitnessRejected ==
    /\ game # Idle
    /\ game.tag = "Err"
    /\ num_robots(state) = 2

----------------------------------------------------------------------------
(* C10 *)

\* C10: new_randomized examines at most 5000 candidates; it returns Ok only
\* for a candidate that is solvable in no fewer than 4 slides and only when
\* no candidate examined before it was such a candidate; it returns the error
\* only after 5000 candidates none of which was such a candidate.
C10_FirstAcceptableOrError ==
    /\ gen.taken <= candidate_validate_attempts
    /\ gen.tag # "Panicked"
    /\ gen.tag = "Returned" =>
          /\ ~gen.passed_over
          /\ gen.result.tag = "Ok" =>
                /\ Acceptable(gen.result.v)
                /\ gen.result.v = gen.candidate
          /\ gen.result.tag = "Err" => gen.taken = candidate_validate_attempts

C10_Witness ==
    /\ gen.tag = "Returned"
    /\ gen.result.tag = "Err"
    /\ gen.taken = candidate_validate_attempts

\* the last of the 5000 candidates is accepted
C10_WitnessLast ==
    /\ ReturnedOk
    /\ gen.taken = candidate_validate_attempts

----------------------------------------------------------------------------
(* C11 *)

\* C11: in the path solve_from_here returns for a solvable state, each
\* adjacent pair has equal invariants and equal robot counts and differs in
\* the position of exactly one actor, and pos_changes over the path yields
\* one Ok per pair (L - 1 of them), the change of that actor, and no error.
C11_SolutionPosChangesOk ==
    (Solved /\ search.result.tag = "Some") =>
        LET path == search.result.v
            changes == pos_changes(path)
        IN  /\ Len(changes) = Len(path) - 1
            /\ \A k \in 1 .. Len(path) - 1 :
                  /\ path[k].invariants = path[k + 1].invariants
                  /\ Len(path[k].robots) = Len(path[k + 1].robots)
                  /\ ActorsMoved(path[k], path[k + 1]) = 1
                  /\ changes[k].tag = "Ok"
                  /\ \E selection \in Selections(path[k]) :
                        changes[k].v = <<pos_of(path[k], selection),
                                         pos_of(path[k + 1], selection)>>

\* a solution of three slides in which the astronaut and a robot both move
C11_Witness ==
    /\ Solved
    /\ search.result.tag = "Some"
    /\ Len(pos_changes(search.result.v)) = 3
    /\ \E k \in 1 .. 3 : search.result.v[k].astro = search.result.v[k + 1].astro
    /\ \E k \in 1 .. 3 : search.result.v[k].astro # search.result.v[k + 1].astro
    /\ \A k \in 1 .. 3 : pos_changes(search.result.v)[k].tag = "Ok"


----------------------------------------------------------------------------
(* Vocabulary of the game properties *)

\* the last step of the loop dispatched key while the game was in mode
Pressed(key, mode) ==
    attempt.tag = "Key" /\ attempt.key = key /\ attempt.before.mode = mode

Cursor == game.v.walkthrough.current_step

CursorBefore == attempt.before.walkthrough.current_step

SolutionLen == Len(game.v.walkthrough.solution)

----------------------------------------------------------------------------
(* C12 *)

\* C12: the walkthrough's solution has length L >= 1 and after any sequence
\* of keys the cursor satisfies 0 <= current_step <= L - 1 and the state at
\* the cursor exists; walkthrough_next at L - 1 and walkthrough_prev at 0
\* leave the cursor unchanged and otherwise change it by +1 and -1; restart
\* sets it to 0.
C12_CursorInRange ==
    /\ SolutionLen >= 1
    /\ 0 <= Cursor /\ Cursor <= SolutionLen - 1
    /\ SolutionWalkthrough_state(game.v.walkthrough)
          = Some(game.v.walkthrough.solution[Cursor + 1])
    /\ Pressed("x", "Walkthrough") =>
          Cursor = IF CursorBefore = SolutionLen - 1 THEN CursorBefore
                   ELSE CursorBefore + 1
    /\ Pressed("z", "Walkthrough") =>
          Cursor = IF CursorBefore = 0 THEN CursorBefore ELSE CursorBefore - 1
    /\ (attempt.tag = "Key" /\ attempt.key = "r") => Cursor = 0
    /\ attempt.tag = "Key" => game.v.walkthrough.solution = attempt.before.walkthrough.solution

\* walkthrough_next at the last step of a solution of three states
C12_Witness ==
    /\ Pressed("x", "Walkthrough")
    /\ SolutionLen = 3
    /\ CursorBefore = 2
    /\ Cursor = 2

\* walkthrough_prev in the middle of a solution, and at its first step
C12_WitnessPrev ==
    /\ Pressed("z", "Walkthrough")
    /\ CursorBefore = 1
    /\ Cursor = 0

C12_WitnessPrevAtStart ==
    /\ Pressed("z", "Walkthrough")
    /\ CursorBefore = 0
    /\ Cursor = 0


----------------------------------------------------------------------------
(* C13 *)

Compared == attempt.tag = "Compared"

\* the indices of the robots whose positions differ between s and t
DifferingRobots(s, t) == {k \in 1 .. Len(s.robots) : s.robots[k] # t.robots[k]}

\* C13: try_from((s, t)) is an error when the invariants of s and t differ,
\* when their robot counts differ and when s = t; otherwise it is Ok of
\* (before, after) of the astronaut when the astronaut's position differs,
\* whatever the robots do, and else of the lowest-index differing robot.
C13_TryFromReportsFirstChange ==
    Compared =>
        LET s == state
            t == attempt.t
        IN  IF \/ s.invariants # t.invariants
               \/ Len(s.robots) # Len(t.robots)
               \/ s = t
            THEN attempt.result.tag = "Err"
            ELSE IF s.astro # t.astro
            THEN attempt.result = Ok(<<s.astro, t.astro>>)
            ELSE /\ DifferingRobots(s, t) # {}
                 /\ attempt.result = Ok(<<s.robots[Min(DifferingRobots(s, t))],
                                          t.robots[Min(DifferingRobots(s, t))]>>)

\* the astronaut goes from (1,1) to (1,3) and nothing else changes
C13_Witness ==
    /\ Compared
    /\ state.astro = <<1, 1>>
    /\ attempt.t = [state EXCEPT !.astro = <<1, 3>>]
    /\ Len(state.robots) = 2
    /\ attempt.result = Ok(<<<<1, 1>>, <<1, 3>>>>)

\* the astronaut and a robot differ: the astronaut is reported
C13_WitnessAstroPreferred ==
    /\ Compared
    /\ state.astro # attempt.t.astro
    /\ attempt.result.tag = "Ok"
    /\ DifferingRobots(state, attempt.t) # {}
    /\ attempt.result.v = <<state.astro, attempt.t.astro>>

\* two robots differ: the one of lower index is reported
C13_WitnessFirstRobot ==
    /\ Compared
    /\ attempt.result.tag = "Ok"
    /\ state.astro = attempt.t.astro
    /\ DifferingRobots(state, attempt.t) = {1, 2}
    /\ attempt.result.v = <<state.robots[1], attempt.t.robots[1]>>

\* the three errors
C13_WitnessErrors ==
    /\ Compared
    /\ state = attempt.t
    /\ attempt.result = Err("start and end states are equal")

C13_WitnessInvariants ==
    /\ Compared
    /\ state.invariants.goal = attempt.t.invariants.goal
    /\ state.invariants.rows # attempt.t.invariants.rows
    /\ attempt.result = Err("state invariants differ")

C13_WitnessCounts ==
    /\ Compared
    /\ Len(state.robots) = 2 /\ Len(attempt.t.robots) = 1
    /\ attempt.result = Err("number of robots differs")


----------------------------------------------------------------------------
(* C14 *)

\* C14: for a state with no robots whose astronaut stands on the goal,
\* solve_from_here returns Some of the one-element path holding that state,
\* and does so on the test of the start state, before any node is inserted
\* or expanded.
C14_StartAtGoalIsItsOwnPath ==
    (Solved /\ num_robots(state) = 0 /\ state.astro = state.invariants.goal)
        => /\ search.result = Some(<<state>>)
           /\ search.nodes = <<>>
           /\ search.i = 1

C14_Witness ==
    /\ Solved
    /\ num_robots(state) = 0
    /\ state.astro = state.invariants.goal
    /\ state.invariants.rows = 4
    /\ search.result.tag = "Some"
    /\ Len(search.result.v) = 1
    /\ search.result.v[1] = state


----------------------------------------------------------------------------
(* C15 *)

\* no state is held twice by the search: equality is on astro, the ordered
\* robot list and the invariants
NoDuplicateNodes ==
    search.tag \in {"Running", "Done"} =>
        Cardinality(SeqRange(search.nodes)) = Len(search.nodes)

\* a step of the running search expands the node at index i, the expanded
\* nodes being those at indices 1 .. i - 1 in the order of their insertion:
\* the nodes held stay where they are, every node added is a slide of the
\* node at index i with i as its parent, and i advances by one unless the
\* search returns
FifoStep ==
    (search.tag = "Running" /\ search.i <= Len(search.nodes)) =>
        /\ Len(search'.nodes) >= Len(search.nodes)
        /\ SubSeq(search'.nodes, 1, Len(search.nodes)) = search.nodes
        /\ \A k \in Len(search.nodes) + 1 .. Len(search'.nodes) :
              /\ search'.nodes[k] \in Slides(search.nodes[search.i])
              /\ search'.parent[k] = search.i
        /\ search'.tag = "Running" => search'.i = search.i + 1
        /\ search'.tag = "Done" => search'.i = search.i

\* C15: solve_from_here terminates on every state: the search expands the
\* nodes in the order of their insertion, never holds (so never expands) a
\* state equal to one already visited, and eventually returns Some(path) or
\* None.
C15_SearchTerminates ==
    /\ []NoDuplicateNodes
    /\ [][FifoStep]_vars
    /\ <>(Solved /\ search.result.tag \in {"Some", "None"})

\* a search that has run out of nodes after dropping a successor equal to a
\* state visited before
C15_Witness ==
    /\ Solved
    /\ search.result = None
    /\ Len(search.nodes) >= 3
    /\ search.i = Len(search.nodes) + 1
    /\ \E j \in 2 .. Len(search.nodes) :
          \E k \in 1 .. j - 1 : search.nodes[k] \in Slides(search.nodes[j])


----------------------------------------------------------------------------
(* C16 *)

\* the state that differs from s in the goal position only
WithGoal(s, goal) == [s EXCEPT !.invariants.goal = goal]

BoardCells(s) == Cells(s.invariants.rows, s.invariants.cols)

\* the cells of the line of a slide from pos: pos and the cells ahead of it
LineCells(s, pos, direction) ==
    {Ahead(pos, direction, k) : k \in 0 .. Room(s, pos, direction)}

\* C16: move_toward does not depend on the goal position: the outcome of a
\* query on an actor's position is the outcome of the same query on every
\* state that differs in the goal position only, and so is the outcome for
\* every cell that holds no actor, with the goal moved to any cell of the
\* line of the slide; and a slide stops on the goal cell only when the cell
\* beyond it holds an actor.
C16_GoalIsEmptyForSliding ==
    /\ Queried =>
          /\ \A goal \in BoardCells(state) :
                attempt.result = move_toward(WithGoal(state, goal), attempt.pos, attempt.dir)
          /\ attempt.result = Success(state.invariants.goal)
                => HoldsActor(state, Ahead(state.invariants.goal, attempt.dir, 1))
    /\ attempt = Idle =>
          \A pos \in {c \in BoardCells(state) : ~HoldsActor(state, c)},
             direction \in Direction :
              \A goal \in LineCells(state, pos, direction) :
                  move_toward(state, pos, direction)
                      = move_toward(WithGoal(state, goal), pos, direction)

\* a slide over the goal cell to the cell beyond it
C16_Witness ==
    /\ Queried
    /\ tile_at(state, Ahead(attempt.pos, attempt.dir, 1)) = "Goal"
    /\ attempt.result = Success(Ahead(attempt.pos, attempt.dir, 2))
    /\ attempt.result # move_loop_goal_stops(state,
                            positions_in_path(state, attempt.pos, attempt.dir), 1)

\* a slide that stops on the goal cell, before an actor
C16_WitnessStopsOnGoal ==
    /\ Queried
    /\ attempt.result = Success(state.invariants.goal)
    /\ tile_at(state, Ahead(state.invariants.goal, attempt.dir, 1)) = "Robot"


----------------------------------------------------------------------------
(* C17 *)

Looked == attempt.tag = "Looked"

\* C17: tile_at(pos) is Astro on the astronaut's cell, Robot on the cells of
\* the robot list, Goal on the goal cell when no actor stands on it and Empty
\* elsewhere; an astronaut or a robot standing on the goal cell is reported
\* as Astro or Robot, never as Goal.
C17_TilePriority ==
    Looked =>
        /\ attempt.result \in Tile
        /\ attempt.result = "Astro" <=> attempt.pos = state.astro
        /\ attempt.result = "Robot" <=>
              (attempt.pos \in SeqRange(state.robots) /\ attempt.pos # state.astro)
        /\ attempt.result = "Goal" <=>
              (attempt.pos = state.invariants.goal /\ ~HoldsActor(state, attempt.pos))
        /\ attempt.result = "Empty" <=>
              (attempt.pos # state.invariants.goal /\ ~HoldsActor(state, attempt.pos))

\* a robot stands on the goal cell
C17_Witness ==
    /\ Looked
    /\ attempt.pos = state.invariants.goal
    /\ attempt.pos \in SeqRange(state.robots)
    /\ attempt.result = "Robot"

\* the astronaut stands on the goal cell
C17_WitnessAstro ==
    /\ Looked
    /\ attempt.pos = state.invariants.goal
    /\ attempt.pos = state.astro
    /\ attempt.result = "Astro"


----------------------------------------------------------------------------
(* C18 *)

Expanded == attempt.tag = "Expanded"

\* the (actor, direction) pairs of s in the order of the claim: the astronaut
\* first, then robot 0, robot 1, ...; for each actor Up, Down, Left, Right
ActorDirectionPairs(s) ==
    [m \in 1 .. 4 * (Len(s.robots) + 1) |->
        [actor |-> (m - 1) \div 4,
         dir |-> <<"Up", "Down", "Left", "Right">>[((m - 1) % 4) + 1]]]

\* the position of actor a of s: 0 is the astronaut, a >= 1 is robot a - 1
ActorPos(s, a) == IF a = 0 THEN s.astro ELSE s.robots[a]

\* the slide of the pair succeeds: an actor stands on the path, not next to pos
PairSlides(s, p) ==
    /\ BlockersAt(s, ActorPos(s, p.actor), p.dir) # {}
    /\ Min(BlockersAt(s, ActorPos(s, p.actor), p.dir)) >= 2

\* s with the actor of the pair on the cell before the nearest actor
PairSuccessor(s, p) ==
    LET landing == Ahead(ActorPos(s, p.actor), p.dir,
                         Min(BlockersAt(s, ActorPos(s, p.actor), p.dir)) - 1)
    IN  IF p.actor = 0 THEN [s EXCEPT !.astro = landing]
        ELSE [s EXCEPT !.robots[p.actor] = landing]

\* C18: all_successors(S) lists one successor for each (actor, direction)
\* pair whose slide succeeds and none for the others, the astronaut's first,
\* then those of robot 0, robot 1, ..., for each actor in the order Up, Down,
\* Left, Right; each successor is S with the position of that one actor
\* replaced by the landing cell.
C18_SuccessorsInOrder ==
    Expanded =>
        LET sliding == SelectSeq(ActorDirectionPairs(state),
                                 LAMBDA p : PairSlides(state, p))
        IN  /\ Len(attempt.result) = Len(sliding)
            /\ \A m \in 1 .. Len(sliding) :
                  /\ attempt.result[m] = PairSuccessor(state, sliding[m])
                  /\ attempt.result[m].invariants = state.invariants
                  /\ Len(attempt.result[m].robots) = Len(state.robots)
                  /\ ActorsMoved(state, attempt.result[m]) = 1

\* the astronaut slides in two directions and a robot in one, others fail
C18_Witness ==
    /\ Expanded
    /\ Len(attempt.result) >= 3
    /\ Len(attempt.result) < 4 * (Len(state.robots) + 1)
    /\ attempt.result[1].astro # state.astro
    /\ attempt.result[2].astro # state.astro
    /\ attempt.result[1].astro[1] = state.astro[1]
    /\ attempt.result[2].astro[2] = state.astro[2]
    /\ attempt.result[3].astro = state.astro


----------------------------------------------------------------------------
(* C19 *)

Built == gen.tag = "Built"

\* C19: for rows and cols in 4 .. 10 the assertion num_robots + 2 <
\* rows * cols never fails, and every candidate built has a robot count n
\* with 0 <= n < max(rows, cols), exactly n robots, and its astronaut, goal
\* and robot positions are pairwise distinct cells of the rows x cols board,
\* so that no candidate has the astronaut on the goal.
C19_CandidatesWellFormed ==
    /\ gen.tag # "Panicked"
    /\ Built =>
          LET c == gen.candidate
              held == {c.astro, c.invariants.goal} \cup SeqRange(c.robots)
          IN  /\ gen.rows \in 4 .. 10 /\ gen.cols \in 4 .. 10
              /\ 0 <= gen.num_robots
              /\ gen.num_robots < gen.rows \/ gen.num_robots < gen.cols
              /\ gen.num_robots + 2 < gen.rows * gen.cols
              /\ Len(c.robots) = gen.num_robots
              /\ c.invariants.rows = gen.rows /\ c.invariants.cols = gen.cols
              /\ \A p \in held : OnBoard(c, p)
              /\ Cardinality(held) = gen.num_robots + 2
              /\ ~is_at_goal(c)

\* the largest robot count on the narrowest tall board
C19_Witness ==
    /\ Built
    /\ gen.rows = 10 /\ gen.cols = 4
    /\ gen.num_robots = 9
    /\ Len(gen.candidate.robots) = 9
    /\ \E n \in 1 .. 9 : gen.candidate.robots[n][2] >= 4

\* the largest robot count on the smallest board
C19_WitnessSmallest ==
    /\ Built
    /\ gen.rows = 4 /\ gen.cols = 4
    /\ gen.num_robots = 3


----------------------------------------------------------------------------
(* C20 *)

Moves == game.v.moves

MovesBefore == attempt.before.moves

\* t is s with the position of the one actor selection changed
MovedOnly(s, t, selection) ==
    /\ t.invariants = s.invariants
    /\ Len(t.robots) = Len(s.robots)
    /\ pos_of(t, selection) # pos_of(s, selection)
    /\ \A other \in Selections(s) \ {selection} : pos_of(t, other) = pos_of(s, other)

\* C20: the history is never empty and its first entry is the initial state;
\* a movement appends one state that differs from the previous last entry in
\* the position of the selected actor only and leaves the earlier entries as
\* they were; undo removes exactly the last entry of a history of more than
\* one entry and changes nothing in a history of one; restart leaves the
\* first entry only; no other key changes the history.
C20_HistoryAppendOnly ==
    /\ Len(Moves) >= 1
    /\ Moves[1] = state
    /\ attempt.tag = "Key" =>
          IF attempt.key \in Direction /\ attempt.before.mode = "Playable"
          THEN \/ Moves = MovesBefore
               \/ /\ Len(Moves) = Len(MovesBefore) + 1
                  /\ SubSeq(Moves, 1, Len(MovesBefore)) = MovesBefore
                  /\ MovedOnly(MovesBefore[Len(MovesBefore)], Moves[Len(Moves)],
                               attempt.before.selected)
          ELSE IF attempt.key = "u" /\ attempt.before.mode = "Playable"
          THEN IF Len(MovesBefore) > 1
               THEN /\ Len(Moves) = Len(MovesBefore) - 1
                    /\ Moves = SubSeq(MovesBefore, 1, Len(MovesBefore) - 1)
               ELSE Moves = MovesBefore
          ELSE IF attempt.key = "r"
          THEN Moves = <<MovesBefore[1]>>
          ELSE Moves = MovesBefore

\* a robot is moved after another movement: the history grows from 2 to 3
C20_Witness ==
    /\ attempt.tag = "Key"
    /\ attempt.key \in Direction
    /\ attempt.before.selected.tag = "Robot"
    /\ Len(MovesBefore) = 2
    /\ Len(Moves) = 3
    /\ Moves[2] = MovesBefore[2]
    /\ Moves[3] # Moves[2]

\* undo of the last of three entries, undo on a single entry, and restart
C20_WitnessUndo ==
    /\ Pressed("u", "Playable")
    /\ Len(MovesBefore) = 3
    /\ Len(Moves) = 2

C20_WitnessUndoSingle ==
    /\ Pressed("u", "Playable")
    /\ Len(MovesBefore) = 1
    /\ Moves = <<state>>

C20_WitnessRestart ==
    /\ attempt.tag = "Key" /\ attempt.key = "r"
    /\ Len(MovesBefore) = 3
    /\ Moves = <<state>>


----------------------------------------------------------------------------
(* C21 *)

\* the astronaut and the robots of s stand on pairwise distinct cells of the
\* board of s
ActorsDistinctOnBoard(s) ==
    /\ OnBoard(s, s.astro)
    /\ \A n \in 1 .. Len(s.robots) : OnBoard(s, s.robots[n])
    /\ Cardinality({s.astro} \cup SeqRange(s.robots)) = Len(s.robots) + 1

\* C21: every state reached by successful slides of any actors from a state
\* whose astronaut and robots stand on pairwise distinct cells of the board
\* has the astronaut and the robots on pairwise distinct cells of the board,
\* and the robot count and the invariants (goal, rows, cols) of the state the
\* slides started from.
C21_SlidesKeepActorsDistinct ==
    ActorsDistinctOnBoard(attempt.start) =>
        /\ ActorsDistinctOnBoard(state)
        /\ Len(state.robots) = Len(attempt.start.robots)
        /\ state.invariants = attempt.start.invariants

\* a state reached by slides of the astronaut and of a robot
C21_Witness ==
    /\ attempt.tag = "Slid"
    /\ ActorsDistinctOnBoard(attempt.start)
    /\ state.astro # attempt.start.astro
    /\ \E n \in 1 .. Len(state.robots) : state.robots[n] # attempt.start.robots[n]
    /\ ActorsDistinctOnBoard(state)


----------------------------------------------------------------------------
(* C22 *)

\* C22: for a game whose initial state is not at the goal, after any
\* sequence of keys the mode is GameOver exactly when the last state of the
\* history is at the goal; a key read in GameOver other than 'r' (arrows,
\* 'u', 'z', 'x', 'w') leaves the whole game as it was, and 'r' takes the
\* game to Playable with the history holding the initial state only.
C22_GameOverIffAtGoal ==
    ~is_at_goal(state) =>
        /\ game.v.mode = "GameOver" <=> is_at_goal(Moves[Len(Moves)])
        /\ (attempt.tag = "Key" /\ attempt.before.mode = "GameOver") =>
              IF attempt.key = "r"
              THEN /\ game.v.mode = "Playable"
                   /\ Moves = <<state>>
                   /\ ~is_at_goal(Moves[Len(Moves)])
              ELSE game.v = attempt.before
        /\ (attempt.tag = "Key" /\ attempt.before.mode # "GameOver"
                /\ game.v.mode = "GameOver") =>
              /\ attempt.key \in Direction
              /\ attempt.before.mode = "Playable"
              /\ Len(Moves) = Len(MovesBefore) + 1

\* an arrow key read in GameOver
C22_Witness ==
    /\ ~is_at_goal(state)
    /\ attempt.tag = "Key"
    /\ attempt.key \in Direction
    /\ attempt.before.mode = "GameOver"
    /\ game.v.mode = "GameOver"
    /\ is_at_goal(Moves[Len(Moves)])

\* 'w' and 'u' read in GameOver
C22_WitnessToggle ==
    /\ Pressed("w", "GameOver")
    /\ game.v.mode = "GameOver"

C22_WitnessUndo ==
    /\ Pressed("u", "GameOver")
    /\ Len(Moves) = 3
    /\ game.v.mode = "GameOver"

\* 'r' read in GameOver
C22_WitnessRestart ==
    /\ Pressed("r", "GameOver")
    /\ game.v.mode = "Playable"
    /\ Moves = <<state>>

\* the goal is reached by the second movement, after a robot was moved
C22_WitnessReached ==
    /\ attempt.tag = "Key"
    /\ attempt.key \in Direction
    /\ attempt.before.mode = "Playable"
    /\ game.v.mode = "GameOver"
    /\ Len(Moves) = 3
    /\ Moves[2].astro = Moves[1].astro


----------------------------------------------------------------------------
(* C23 *)

\* the place of a selection in the cycle Astro, Robot(0), Robot(1), ...
CyclePlace(selection) == IF selection.tag = "Astro" THEN 0 ELSE selection.n + 1

\* the game g with the robots removed from its current state, Astro selected
WithoutRobots(g) ==
    [g EXCEPT !.moves = <<[Game_state(g) EXCEPT !.robots = <<>>]>>,
              !.selected = [tag |-> "Astro"]]

\* C23: after any sequence of keys the selection is Astro or Robot(n) with
\* 0 <= n < num_robots of the current state, so pos_of(selected) is defined;
\* select_next_character moves one place forward in the cycle Astro,
\* Robot(0), ..., Robot(num_robots - 1), Astro and select_prev_character one
\* place back, each undoing the other; on a state without robots both leave
\* the selection at Astro.  (No game that Game::new accepts is without
\* robots, so the last part is evaluated on the current game with its robots
\* removed.)
C23_SelectionInRange ==
    LET places == num_robots(Game_state(game.v)) + 1
    IN  /\ game.v.selected.tag \in {"Astro", "Robot"}
        /\ game.v.selected.tag = "Robot" =>
              /\ 0 <= game.v.selected.n
              /\ game.v.selected.n < num_robots(Game_state(game.v))
              /\ selected_pos(game.v) = Game_state(game.v).robots[game.v.selected.n + 1]
        /\ game.v.selected.tag = "Astro" => selected_pos(game.v) = Game_state(game.v).astro
        /\ Pressed("x", "Playable") =>
              CyclePlace(game.v.selected)
                  = (CyclePlace(attempt.before.selected) + 1) % places
        /\ Pressed("z", "Playable") =>
              CyclePlace(game.v.selected)
                  = (CyclePlace(attempt.before.selected) + places - 1) % places
        /\ select_prev_character(select_next_character(game.v)) = game.v
        /\ select_next_character(select_prev_character(game.v)) = game.v
        /\ select_next_character(WithoutRobots(game.v)).selected = [tag |-> "Astro"]
        /\ select_prev_character(WithoutRobots(game.v)).selected = [tag |-> "Astro"]

\* select_next_character on the last of two robots, after a movement
C23_Witness ==
    /\ Pressed("x", "Playable")
    /\ Len(Moves) >= 2
    /\ attempt.before.selected = [tag |-> "Robot", n |-> 1]
    /\ num_robots(Game_state(game.v)) = 2
    /\ game.v.selected = [tag |-> "Astro"]

\* select_prev_character on Astro
C23_WitnessPrev ==
    /\ Pressed("z", "Playable")
    /\ attempt.before.selected = [tag |-> "Astro"]
    /\ game.v.selected = [tag |-> "Robot", n |-> 1]

\* a robot is selected when the history is undone and when it is restarted
C23_WitnessUndo ==
    /\ Pressed("u", "Playable")
    /\ Len(MovesBefore) = 2
    /\ game.v.selected = [tag |-> "Robot", n |-> 1]

C23_WitnessRestart ==
    /\ attempt.tag = "Key" /\ attempt.key = "r"
    /\ Len(MovesBefore) = 3
    /\ game.v.selected.tag = "Robot"


====
